---------------------------- MODULE Spec2Model ----------------------------
(***************************************************************************)
(* Model of zerotwobot/modules/helper_funcs/chat_status.py: the            *)
(* check_admin decision engine and the admin snapshot cache behind         *)
(* is_user_admin / user_admin.                                             *)
(*                                                                         *)
(* Two specifications share the variables:                                 *)
(*   SpecGuard  one check_admin invocation at a time, every flag           *)
(*              configuration and every membership record;                 *)
(*   Spec       handler coroutines of the user_admin guard interleaving    *)
(*              at the await inside is_user_admin, over ADMIN_CACHE and    *)
(*              THREAD_LOCK.                                               *)
(***************************************************************************)
EXTENDS Integers, Sequences, FiniteSets, TLC

(***************************************************************************)
(* Role registry (imported configuration, chat_status.py:10-11).  The sets *)
(* are disjoint by convention; one representative id per tier.             *)
(***************************************************************************)
DEV_USERS == {1}
DRAGONS == {2}
DEMONS == {3}
TIGERS == {4}
WOLVES == {5}

\* Users in no tier: 6 may be promoted to administrator upstream, 7 never is.
PlainUsers == {6, 7}

\* The ids is_user_admin counts as admin: Telegram itself and GroupAnonymousBot.
PseudoUsers == {777000, 1087968824}

\* The ids that invoke check_admin in SpecGuard.
GuardUsers == DEV_USERS \cup DRAGONS \cup DEMONS \cup {6}

\* Capability attribute names of ChatMemberAdministrator used as `permission`.
Permissions == {"can_delete_messages", "can_restrict_members"}

\* permission=None (the default of check_admin).
NonePermission == "None"

(***************************************************************************)
(* Membership records (telegram.ChatMember subclasses).  kind is both the  *)
(* class (ChatMemberOwner, ChatMemberAdministrator, ...) and .status; caps *)
(* are the capability attributes that are True.  NoneMember is Python's    *)
(* None, the value of bot_member / user_member when no fetch is made.      *)
(***************************************************************************)
NoneMember == [kind |-> "None", caps |-> {}]

AdminRecords == {[kind |-> "administrator", caps |-> s] : s \in SUBSET Permissions}

\* What chat.get_member(user.id) can return for a user who sent a message.
UserRecords ==
    {[kind |-> "owner", caps |-> {}], [kind |-> "member", caps |-> {}],
     [kind |-> "restricted", caps |-> {}]} \cup AdminRecords

\* What chat.get_member(bot.id) can return: a bot is never the chat owner.
BotRecords == {[kind |-> "member", caps |-> {}]} \cup AdminRecords

\* isinstance(m, ChatMemberOwner)
IsChatMemberOwner(m) == m.kind = "owner"

\* isinstance(m, ChatMemberAdministrator)
IsChatMemberAdministrator(m) == m.kind = "administrator"

\* getattr(m, permission) if isinstance(m, ChatMemberAdministrator) else False
HasPermission(m, permission) ==
    IF IsChatMemberAdministrator(m) THEN permission \in m.caps ELSE FALSE

(***************************************************************************)
(* Python values with their type, for `x in [a, b]`: list membership       *)
(* compares x == a, x == b, and an int never equals a collection.          *)
(***************************************************************************)
PyInt(n) == [tag |-> "int", ints |-> {n}]

PyColl(S) == [tag |-> "collection", ints |-> S]

PyEq(a, b) == a.tag = b.tag /\ a.ints = b.ints

PyInList(x, list) == \E i \in 1..Len(list) : PyEq(x, list[i])

\* is_sudo_plus(chat, user_id)
is_sudo_plus(user_id) == user_id \in DRAGONS \/ user_id \in DEV_USERS

\* is_support_plus(chat, user_id)
is_support_plus(user_id) ==
    user_id \in DEMONS \/ user_id \in DRAGONS \/ user_id \in DEV_USERS

\* is_whitelist_plus(chat, user_id)
is_whitelist_plus(user_id) ==
    \E tier \in {WOLVES, TIGERS, DEMONS, DRAGONS, DEV_USERS} : user_id \in tier

(***************************************************************************)
(* Outcome of one guard invocation: how many times the wrapped action ran, *)
(* the denial replies sent (in order), the exception that left the guard,  *)
(* what the guard returned, and the membership fetches made.               *)
(***************************************************************************)
NoOutcome == [invoked |-> 0, replies |-> <<>>, error |-> "none", ret |-> "None",
              fetched |-> {}]

\* return await func(update, context, *args, **kwargs)
ReturnFunc(o) == [o EXCEPT !.invoked = @ + 1, !.ret = "func"]

\* return await message.reply_text(text)
ReturnReply(o, reason) == [o EXCEPT !.replies = Append(@, reason), !.ret = "reply"]

\* await message.reply_text(text), without return
Reply(o, reason) == [o EXCEPT !.replies = Append(@, reason)]

\* None.status raises AttributeError out of the guard
Raise(o, exc) == [o EXCEPT !.error = exc]

(***************************************************************************)
(* check_admin(...).wrapped, lines 39-113, rule by rule.  Each rule takes  *)
(* the decorator arguments cfg, the event ev, the two member records as    *)
(* lines 48-49 bound them, and the outcome o accumulated so far, and       *)
(* either ends the evaluation or falls through to the next rule.           *)
(***************************************************************************)

\* Lines 102-113: the else branch of `if permission:`.  Both passes end at
\* the end of the function: nothing is invoked and None is returned.
PlainAdminRule(cfg, ev, bot_member, user_member, o) ==
    IF bot_member = NoneMember THEN Raise(o, "AttributeError")
    ELSE IF bot_member.kind # "administrator" THEN ReturnReply(o, "not-admin")
    ELSE IF user_member = NoneMember THEN Raise(o, "AttributeError")
    ELSE IF user_member.kind \in {"administrator", "owner"} THEN o
    ELSE IF ev.uid \in DRAGONS THEN o
    ELSE ReturnReply(o, "no-access")

\* Lines 79-82 and 94-97: `X if isinstance(...) else False or user.id in DRAGONS`
\* parses as `X if isinstance(...) else (False or user.id in DRAGONS)`.
UserCapabilityTest(ev, user_member, permission) ==
    IF IsChatMemberAdministrator(user_member)
    THEN permission \in user_member.caps
    ELSE (FALSE \/ ev.uid \in DRAGONS)

\* An is_both rule that lets the owner and the developers through before it
\* looks at the bot.
BothRuleUserFirst(cfg, ev, bot_member, user_member, o) ==
    IF IsChatMemberOwner(user_member) \/ ev.uid \in DEV_USERS THEN ReturnFunc(o)
    ELSE IF ~HasPermission(bot_member, cfg.permission)
    THEN ReturnReply(o, "insufficient-bot-capability")
    ELSE IF UserCapabilityTest(ev, user_member, cfg.permission) THEN ReturnFunc(o)
    ELSE ReturnReply(o, "insufficient-user-capability")

\* Lines 86-101: is_both.
BothRule(cfg, ev, bot_member, user_member, o) ==
    IF ~HasPermission(bot_member, cfg.permission)
    THEN ReturnReply(o, "insufficient-bot-capability")
    ELSE IF IsChatMemberOwner(user_member) \/ ev.uid \in DEV_USERS THEN ReturnFunc(o)
    ELSE IF UserCapabilityTest(ev, user_member, cfg.permission) THEN ReturnFunc(o)
    ELSE ReturnReply(o, "insufficient-user-capability")

\* Lines 76-85: is_user.
UserRule(cfg, ev, bot_member, user_member, o) ==
    IF IsChatMemberOwner(user_member) THEN ReturnFunc(o)
    ELSE IF UserCapabilityTest(ev, user_member, cfg.permission) THEN ReturnFunc(o)
    ELSE ReturnReply(o, "insufficient-user-capability")

\* Lines 71-75: is_bot.
BotRule(cfg, ev, bot_member, user_member, o) ==
    IF HasPermission(bot_member, cfg.permission) THEN ReturnFunc(o)
    ELSE ReturnReply(o, "insufficient-bot-capability")

\* Lines 70-113: `if permission:` ... `else:`.  With a permission and none of
\* is_bot / is_user / is_both the function ends without doing anything.
PermissionRule(cfg, ev, bot_member, user_member, o) ==
    IF cfg.permission # NonePermission
    THEN IF cfg.is_bot THEN BotRule(cfg, ev, bot_member, user_member, o)
         ELSE IF cfg.is_user THEN UserRule(cfg, ev, bot_member, user_member, o)
         ELSE IF cfg.is_both THEN BothRule(cfg, ev, bot_member, user_member, o)
         ELSE o
    ELSE PlainAdminRule(cfg, ev, bot_member, user_member, o)

\* Lines 64-68: `user.id in [DRAGONS, DEV_USERS]` looks the id up in a list
\* whose two elements are the collections themselves.
OnlySudoRule(cfg, ev, bot_member, user_member, o) ==
    IF cfg.only_sudo
    THEN IF PyInList(PyInt(ev.uid), <<PyColl(DRAGONS), PyColl(DEV_USERS)>>)
         THEN ReturnFunc(o)
         ELSE ReturnReply(o, "sudo-only")
    ELSE PermissionRule(cfg, ev, bot_member, user_member, o)

\* Lines 56-63: the denial is sent with no return, so evaluation goes on.
OnlyDevRule(cfg, ev, bot_member, user_member, o) ==
    IF cfg.only_dev
    THEN IF ev.uid \in DEV_USERS
         THEN ReturnFunc(o)
         ELSE OnlySudoRule(cfg, ev, bot_member, user_member, Reply(o, "dev-only"))
    ELSE OnlySudoRule(cfg, ev, bot_member, user_member, o)

\* Lines 51-55.
OnlyOwnerRule(cfg, ev, bot_member, user_member, o) ==
    IF cfg.only_owner
    THEN IF IsChatMemberOwner(user_member) \/ ev.uid \in DEV_USERS
         THEN ReturnFunc(o)
         ELSE ReturnReply(o, "owner-only")
    ELSE OnlyDevRule(cfg, ev, bot_member, user_member, o)

\* Line 48: bot_member = await chat.get_member(bot.id) if is_bot or is_both else None
FetchBotMember(cfg, ev) == IF cfg.is_bot \/ cfg.is_both THEN ev.botRec ELSE NoneMember

\* Line 49: user_member = await chat.get_member(user.id) if is_user or is_bot else None
FetchUserMember(cfg, ev) == IF cfg.is_user \/ cfg.is_bot THEN ev.userRec ELSE NoneMember

\* A wrapped coroutine without the private-chat test of lines 45-46.
wrappedWithoutPrivateTest(cfg, ev) ==
    OnlyOwnerRule(cfg, ev, FetchBotMember(cfg, ev), FetchUserMember(cfg, ev),
                  [NoOutcome EXCEPT !.fetched =
                      (IF cfg.is_bot \/ cfg.is_both THEN {"bot"} ELSE {})
                      \cup (IF cfg.is_user \/ cfg.is_bot THEN {"user"} ELSE {})])

\* Lines 39-113: the whole wrapped coroutine.
wrapped(cfg, ev) ==
    IF ev.chatType = "private"
    THEN ReturnFunc(NoOutcome)
    ELSE OnlyOwnerRule(cfg, ev, FetchBotMember(cfg, ev), FetchUserMember(cfg, ev),
                       [NoOutcome EXCEPT !.fetched =
                           (IF cfg.is_bot \/ cfg.is_both THEN {"bot"} ELSE {})
                           \cup (IF cfg.is_user \/ cfg.is_bot THEN {"user"} ELSE {})])

\* The decorator arguments: check_admin(permission, is_bot, is_user, is_both,
\* only_owner, only_sudo, only_dev), lines 17-25.
Configs ==
    [permission : Permissions \cup {NonePermission}, is_bot : BOOLEAN,
     is_user : BOOLEAN, is_both : BOOLEAN, only_owner : BOOLEAN,
     only_sudo : BOOLEAN, only_dev : BOOLEAN]

\* What an update carries and what the platform answers about its chat.
Events ==
    [chatType : {"private", "supergroup"}, uid : GuardUsers,
     userRec : UserRecords, botRec : BotRecords]

(***************************************************************************)
(* The tier decorators dev_plus, sudo_plus, support_plus, whitelist_plus,  *)
(* lines 190-274, and can_manage_topics, lines 457-480.                    *)
(***************************************************************************)

\* update.effective_user is None.
NoUser == 0

\* update.effective_user of the updates the tier decorators see.
TierUsers == GuardUsers \cup TIGERS \cup WOLVES \cup {NoUser}

\* update.effective_message.text, character by character: a bare command, a
\* command with an argument after a space, and one after a tab.
Texts == {<<"/", "x">>, <<"/", "x", " ", "y">>, <<"/", "x", "\t", "y">>}

\* " " in update.effective_message.text
HasSpace(text) == \E i \in 1..Len(text) : text[i] = " "

\* What a tier decorator is called with: the chat type, the user, DEL_CMDS,
\* the message text and whether effective_message.delete() succeeds.
TierEvents ==
    [chatType : {"private", "supergroup"}, uid : TierUsers, del_cmds : BOOLEAN,
     text : Texts, deleteOk : BOOLEAN]

\* deletes counts the calls of delete(), deleted tells whether the message
\* is gone.
NoTierOutcome ==
    [invoked |-> 0, replies |-> <<>>, deletes |-> 0, deleted |-> FALSE,
     error |-> "none", ret |-> "None"]

\* try: await update.effective_message.delete() / except: pass
TryDelete(o, ev) == [o EXCEPT !.deletes = @ + 1, !.deleted = ev.deleteOk]

\* A dev_plus that lets everyone through in a private chat.
dev_plus_private_open(ev) ==
    IF ev.chatType = "private" THEN ReturnFunc(NoTierOutcome)
    ELSE IF ev.uid = NoUser THEN Raise(NoTierOutcome, "AttributeError")
    ELSE IF ev.uid \in DEV_USERS THEN ReturnFunc(NoTierOutcome)
    ELSE IF ev.del_cmds /\ ~HasSpace(ev.text) THEN TryDelete(NoTierOutcome, ev)
    ELSE Reply(NoTierOutcome, "dev-only")

\* dev_plus.is_dev_plus_func, lines 192-209: user.id is read before `not
\* user` is tested.
dev_plus(ev) ==
    IF ev.uid = NoUser THEN Raise(NoTierOutcome, "AttributeError")
    ELSE IF ev.uid \in DEV_USERS THEN ReturnFunc(NoTierOutcome)
    ELSE IF ev.del_cmds /\ ~HasSpace(ev.text) THEN TryDelete(NoTierOutcome, ev)
    ELSE Reply(NoTierOutcome, "dev-only")

\* sudo_plus.is_sudo_plus_func, lines 218-235.
sudo_plus(ev) ==
    IF ev.uid # NoUser /\ is_sudo_plus(ev.uid) THEN ReturnFunc(NoTierOutcome)
    ELSE IF ev.uid = NoUser THEN NoTierOutcome
    ELSE IF ev.del_cmds /\ ~HasSpace(ev.text) THEN TryDelete(NoTierOutcome, ev)
    ELSE Reply(NoTierOutcome, "sudo-only")

\* support_plus.is_support_plus_func, lines 242-253: there is no else branch.
support_plus(ev) ==
    IF ev.uid # NoUser /\ is_support_plus(ev.uid) THEN ReturnFunc(NoTierOutcome)
    ELSE IF ev.del_cmds /\ ~HasSpace(ev.text) THEN TryDelete(NoTierOutcome, ev)
    ELSE NoTierOutcome

\* whitelist_plus.is_whitelist_plus_func, lines 260-272.
whitelist_plus(ev) ==
    IF ev.uid # NoUser /\ is_whitelist_plus(ev.uid) THEN ReturnFunc(NoTierOutcome)
    ELSE Reply(NoTierOutcome, "no-access")

\* The capability attributes can_manage_topics may read.
TopicPermissions == {"can_restrict_members", "can_manage_topics"}

\* What chat.get_member(bot.id) can return to can_manage_topics, and whether
\* update.effective_chat.title equals effective_message.chat.title.
TopicEvents ==
    [botRec : {[kind |-> "member", caps |-> {}]}
                \cup {[kind |-> "administrator", caps |-> c] : c \in SUBSET TopicPermissions},
     sameTitle : BOOLEAN]

\* can_manage_topics.topics_rights, lines 459-478: line 473 reads
\* bot_member.can_restrict_members; a bot that is no administrator gets
\* neither the action nor a reply.
topics_rights(ev) ==
    IF IsChatMemberAdministrator(ev.botRec)
    THEN IF "can_restrict_members" \in ev.botRec.caps
         THEN ReturnFunc(NoTierOutcome)
         ELSE Reply(NoTierOutcome,
                    IF ev.sameTitle THEN "cant-manage-topics-here"
                    ELSE "cant-manage-topics-there")
    ELSE NoTierOutcome

(***************************************************************************)
(* The admin snapshot cache and its lock, lines 14-15.                     *)
(***************************************************************************)

\* Number of handler coroutines the application runs concurrently.
NumCoroutines == 2

\* perf_counter() advances TickSeconds at a time, MaxTicks times at most.
MaxTicks == 2

TickSeconds == 400

Coroutines == 1..NumCoroutines

\* Group chats (negative ids) and the private chat of user 6 (its own id).
GroupChats == {-1001, -1002}

PrivateChats == {6}

\* chat.type
ChatType(c) == IF c \in PrivateChats THEN "private" ELSE "supergroup"

\* The users whose promotion and demotion upstream the model follows.
AdminCandidates == {6}

\* update.effective_user.id of the events the handlers receive.
Callers == DEV_USERS \cup DRAGONS \cup PlainUsers \cup {777000}

\* (chat, user) of an event: anyone in a group, the owner of a private chat.
Updates == (GroupChats \X Callers) \cup {<<c, c>> : c \in PrivateChats}

\* TTLCache(maxsize=512, ttl=60 * 10, timer=perf_counter), line 14.  The model
\* has fewer chats than maxsize, so no entry is ever evicted for capacity.
ttl == 60 * 10

NoEntry == [present |-> FALSE, list |-> {}, expires |-> 0]

\* A lookup that never expires an entry.
CacheHitIgnoresExpiry(cache, c, t) == cache[c].present

\* TTLCache.__getitem__ succeeds (no KeyError): the key is there and its
\* expiry time is still ahead of the timer.
CacheHit(cache, c, t) == cache[c].present /\ t < cache[c].expires

\* TTLCache.expire(time): drop every entry whose expiry time has passed.
CacheExpire(cache, t) ==
    [c \in DOMAIN cache |->
        IF cache[c].present /\ ~(t < cache[c].expires) THEN NoEntry ELSE cache[c]]

\* A store that adds the fetched ids to the list already cached.
CacheStoreMerging(cache, c, list, t) ==
    [CacheExpire(cache, t) EXCEPT
        ![c] = [present |-> TRUE,
                list |-> list \cup CacheExpire(cache, t)[c].list,
                expires |-> t + ttl]]

\* ADMIN_CACHE[chat.id] = admin_list (line 149): TTLCache.__setitem__ expires
\* the old entries, then replaces the whole value and restarts its clock.
CacheStore(cache, c, list, t) ==
    [CacheExpire(cache, t) EXCEPT
        ![c] = [present |-> TRUE, list |-> list, expires |-> t + ttl]]

\* A lookup that tests the chat's entry instead of the user in its list.
CacheLookupAnyEntry(cache, c, user_id) == cache[c].present

\* user_id in ADMIN_CACHE[chat.id] (line 142), on a hit.
CacheLookup(cache, c, user_id) == user_id \in cache[c].list

\* The thread a coroutine runs on: handlers are coroutines of the one event
\* loop the application runs, so they share a thread.
ThreadOf(p) == "MainThread"

FreeLock == [owner |-> "none", count |-> 0]

\* RLock.acquire() returns at once for a free lock and for its owning thread.
CanAcquire(lock, thread) == lock.count = 0 \/ lock.owner = thread

\* THREAD_LOCK.__enter__
Acquire(lock, thread) == [owner |-> thread, count |-> lock.count + 1]

\* THREAD_LOCK.__exit__
Release(lock) == IF lock.count = 1 THEN FreeLock ELSE [lock EXCEPT !.count = @ - 1]

\* An is_user_admin that lets the developers through no more.
AdminBypassWithoutDevs(c, user_id) ==
    \/ ChatType(c) = "private"
    \/ user_id \in DRAGONS
    \/ user_id \in PseudoUsers

\* Lines 131-136: the ids and chats is_user_admin lets through unasked.
AdminBypass(c, user_id) ==
    \/ ChatType(c) = "private"
    \/ user_id \in DRAGONS
    \/ user_id \in DEV_USERS
    \/ user_id \in PseudoUsers

(***************************************************************************)
(* user_admin.is_admin, lines 279-296, after is_user_admin has answered.   *)
(* del_cmds is DEL_CMDS, bare is `" " not in update.effective_message.text`*)
(* and deleteOk tells whether message.delete() succeeds; the three are     *)
(* read only on the denial path.                                           *)
(***************************************************************************)
user_admin(isAdmin, del_cmds, bare, deleteOk) ==
    IF isAdmin THEN [invoked |-> 1, effect |-> "none"]
    ELSE IF del_cmds /\ bare
         THEN [invoked |-> 0, effect |-> IF deleteOk THEN "deleted" ELSE "delete_failed"]
         ELSE [invoked |-> 0, effect |-> "replied"]

(***************************************************************************)
(* The remaining decorators: user_admin, user_admin_no_reply and           *)
(* user_not_admin (lines 277-335) on top of is_user_admin, and bot_admin,  *)
(* bot_can_delete, can_pin, can_promote, can_restrict (lines 338-455) on   *)
(* top of the bot's member record.  The user decorators are given here as  *)
(* functions of the event and of what `await is_user_admin(chat, user.id)` *)
(* gave ("True", "False", or "raises" when the fetch of line 147 raised);  *)
(* the call itself, with the lock, the cache and the await, is in the      *)
(* actions.  With no user the call is not made (`user and ...`).           *)
(***************************************************************************)

\* What a user decorator is called with: the chat (one group, UserGuardChats,
\* or the private chat), the user, DEL_CMDS, the text and whether
\* effective_message.delete() succeeds.
UserGuardChats == {-1001}

UserGuardEvents ==
    [chat : UserGuardChats \cup PrivateChats, uid : TierUsers, del_cmds : BOOLEAN,
     text : Texts, deleteOk : BOOLEAN]

\* user_admin.is_admin, lines 279-296.
is_admin(ev, answer) ==
    IF ev.uid = NoUser THEN NoTierOutcome
    ELSE IF answer = "raises" THEN Raise(NoTierOutcome, "TelegramError")
    ELSE IF answer = "True" THEN ReturnFunc(NoTierOutcome)
    ELSE IF ev.del_cmds /\ ~HasSpace(ev.text) THEN TryDelete(NoTierOutcome, ev)
    ELSE Reply(NoTierOutcome, "sudo-only")

\* user_admin_no_reply.is_not_admin_no_reply, lines 303-318.
is_not_admin_no_reply(ev, answer) ==
    IF ev.uid = NoUser THEN NoTierOutcome
    ELSE IF answer = "raises" THEN Raise(NoTierOutcome, "TelegramError")
    ELSE IF answer = "True" THEN ReturnFunc(NoTierOutcome)
    ELSE IF ev.del_cmds /\ ~HasSpace(ev.text) THEN TryDelete(NoTierOutcome, ev)
    ELSE NoTierOutcome

\* user_not_admin.is_not_admin, lines 325-333.
is_not_admin(ev, answer) ==
    IF ev.uid = NoUser THEN NoTierOutcome
    ELSE IF answer = "raises" THEN Raise(NoTierOutcome, "TelegramError")
    ELSE IF answer = "False" THEN ReturnFunc(NoTierOutcome)
    ELSE NoTierOutcome

\* The user decorator fn, once is_user_admin has answered.
UserGuardOutcome(fn, ev, answer) ==
    CASE fn = "user_admin" -> is_admin(ev, answer)
      [] fn = "user_admin_no_reply" -> is_not_admin_no_reply(ev, answer)
      [] fn = "user_not_admin" -> is_not_admin(ev, answer)

\* The capability attributes the bot decorators read.
BotPermissions ==
    {"can_delete_messages", "can_pin_messages", "can_promote_members",
     "can_restrict_members"}

\* What a bot decorator is called with: the chat type, what
\* chat.get_member(bot.id) answers, and whether update.effective_chat.title
\* equals effective_message.chat.title.
BotGuardEvents ==
    [chatType : {"private", "supergroup"},
     botRec : {[kind |-> "member", caps |-> {}]}
                \cup {[kind |-> "administrator", caps |-> c] : c \in SUBSET BotPermissions},
     sameTitle : BOOLEAN]

\* is_bot_admin(chat, bot.id), lines 156-163.
is_bot_admin(ev) ==
    IF ev.chatType = "private" THEN TRUE
    ELSE ev.botRec.kind \in {"administrator", "owner"}

\* can_delete(chat, bot.id), lines 165-168, as a truth value: None for a bot
\* that is no administrator.
can_delete(ev) ==
    IF IsChatMemberAdministrator(ev.botRec)
    THEN "can_delete_messages" \in ev.botRec.caps
    ELSE FALSE

\* The reply of a bot decorator, which names the chat when the titles differ.
BotReply(ev, what) ==
    Reply(NoTierOutcome, IF ev.sameTitle THEN <<what, "here">> ELSE <<what, "there">>)

\* bot_admin.is_admin, lines 340-354.
bot_admin(ev) ==
    IF is_bot_admin(ev) THEN ReturnFunc(NoTierOutcome) ELSE BotReply(ev, "not-admin")

\* bot_can_delete.delete_rights, lines 361-375.
delete_rights(ev) ==
    IF can_delete(ev) THEN ReturnFunc(NoTierOutcome) ELSE BotReply(ev, "cant-delete")

\* can_pin.pin_rights, lines 382-401.
pin_rights(ev) ==
    IF IsChatMemberAdministrator(ev.botRec)
    THEN IF "can_pin_messages" \in ev.botRec.caps
         THEN ReturnFunc(NoTierOutcome)
         ELSE BotReply(ev, "cant-pin")
    ELSE NoTierOutcome

\* can_promote.promote_rights, lines 408-427.
promote_rights(ev) ==
    IF IsChatMemberAdministrator(ev.botRec)
    THEN IF "can_promote_members" \in ev.botRec.caps
         THEN ReturnFunc(NoTierOutcome)
         ELSE BotReply(ev, "cant-promote")
    ELSE NoTierOutcome

\* can_restrict.restrict_rights, lines 434-453.
restrict_rights(ev) ==
    IF IsChatMemberAdministrator(ev.botRec)
    THEN IF "can_restrict_members" \in ev.botRec.caps
         THEN ReturnFunc(NoTierOutcome)
         ELSE BotReply(ev, "cant-restrict")
    ELSE NoTierOutcome

VARIABLES
    guard,      \* SpecGuard: the check_admin invocation just evaluated
    co,         \* Spec: per coroutine, its position in user_admin/is_user_admin
    ADMIN_CACHE,\* Spec: chat id -> [present, list, expires], the TTLCache
    THREAD_LOCK,\* Spec: [owner, count] of the RLock
    now,        \* Spec: perf_counter()
    admins,     \* Spec: upstream truth, chat id -> set of administrators
    last,       \* Spec: outcome of the handler that has just finished
    failed      \* Spec (history): chats whose latest collected fetch raised

vars == <<guard, co, ADMIN_CACHE, THREAD_LOCK, now, admins, last, failed>>

GuardIdle == [pc |-> "idle"]

Idle == [pc |-> "idle", chat |-> 0, uid |-> 0, holds |-> 0]

NoHandler ==
    [fn |-> "none", chat |-> 0, uid |-> 0, member |-> "None", result |-> "None",
     invoked |-> 0, effect |-> "none", error |-> "none", calls |-> 0,
     replaced |-> NoEntry]

Init ==
    /\ guard = GuardIdle
    /\ co = [p \in Coroutines |-> Idle]
    /\ ADMIN_CACHE = [c \in GroupChats |-> NoEntry]
    /\ THREAD_LOCK = FreeLock
    /\ now = 0
    /\ admins = [c \in GroupChats |-> {}]
    /\ last = NoHandler
    /\ failed = {}

(***************************************************************************)
(* SpecGuard: check_admin.                                                 *)
(***************************************************************************)

\* One update handled by a handler decorated with check_admin(**cfg).
CheckAdmin ==
    /\ guard.pc = "idle"
    /\ \E cfg \in Configs, ev \in Events :
          guard' = [pc |-> "returned", cfg |-> cfg, ev |-> ev, out |-> wrapped(cfg, ev)]
    /\ UNCHANGED <<co, ADMIN_CACHE, THREAD_LOCK, now, admins, last, failed>>

\* A handler decorated with dev_plus runs to its end.
DevPlus ==
    /\ guard.pc = "idle"
    /\ \E ev \in TierEvents :
          guard' = [pc |-> "tier_returned", fn |-> "dev_plus", ev |-> ev,
                    out |-> dev_plus(ev)]
    /\ UNCHANGED <<co, ADMIN_CACHE, THREAD_LOCK, now, admins, last, failed>>

\* A handler decorated with sudo_plus runs to its end.
SudoPlus ==
    /\ guard.pc = "idle"
    /\ \E ev \in TierEvents :
          guard' = [pc |-> "tier_returned", fn |-> "sudo_plus", ev |-> ev,
                    out |-> sudo_plus(ev)]
    /\ UNCHANGED <<co, ADMIN_CACHE, THREAD_LOCK, now, admins, last, failed>>

\* A handler decorated with support_plus runs to its end.
SupportPlus ==
    /\ guard.pc = "idle"
    /\ \E ev \in TierEvents :
          guard' = [pc |-> "tier_returned", fn |-> "support_plus", ev |-> ev,
                    out |-> support_plus(ev)]
    /\ UNCHANGED <<co, ADMIN_CACHE, THREAD_LOCK, now, admins, last, failed>>

\* A handler decorated with whitelist_plus runs to its end.
WhitelistPlus ==
    /\ guard.pc = "idle"
    /\ \E ev \in TierEvents :
          guard' = [pc |-> "tier_returned", fn |-> "whitelist_plus", ev |-> ev,
                    out |-> whitelist_plus(ev)]
    /\ UNCHANGED <<co, ADMIN_CACHE, THREAD_LOCK, now, admins, last, failed>>

\* A handler decorated with can_manage_topics runs to its end.
CanManageTopics ==
    /\ guard.pc = "idle"
    /\ \E ev \in TopicEvents :
          guard' = [pc |-> "topics_returned", ev |-> ev, out |-> topics_rights(ev)]
    /\ UNCHANGED <<co, ADMIN_CACHE, THREAD_LOCK, now, admins, last, failed>>

\* The handler coroutine is finished; the next update may come.
GuardReturn ==
    /\ guard.pc \notin {"idle", "awaiting"}
    /\ guard' = GuardIdle
    /\ UNCHANGED <<co, ADMIN_CACHE, THREAD_LOCK, now, admins, last, failed>>

GuardNext ==
    \/ CheckAdmin
    \/ DevPlus
    \/ SudoPlus
    \/ SupportPlus
    \/ WhitelistPlus
    \/ CanManageTopics
    \/ GuardReturn

SpecGuard == Init /\ [][GuardNext]_vars


(***************************************************************************)
(* Spec: handlers decorated with user_admin, one coroutine per update.  A  *)
(* coroutine runs without interruption up to its next suspension, and the  *)
(* only suspension that matters to the cache is the await of               *)
(* getChatAdministrators at line 147, inside `with THREAD_LOCK`.  The      *)
(* event loop runs one coroutine step at a time; when a handler finishes,  *)
(* its outcome is in `last` until the loop has collected it.               *)
(***************************************************************************)

\* DEL_CMDS, `" " not in text` and the success of message.delete(): the
\* inputs of the denial path of user_admin.
DenialInputs ==
    {[del_cmds |-> FALSE, bare |-> TRUE, deleteOk |-> TRUE],
     [del_cmds |-> TRUE, bare |-> FALSE, deleteOk |-> TRUE],
     [del_cmds |-> TRUE, bare |-> TRUE, deleteOk |-> TRUE],
     [del_cmds |-> TRUE, bare |-> TRUE, deleteOk |-> FALSE]}

\* The inputs that can make a difference once is_user_admin has answered.
InputsFor(isAdmin) ==
    IF isAdmin THEN {[del_cmds |-> FALSE, bare |-> FALSE, deleteOk |-> TRUE]}
    ELSE DenialInputs

\* The record a finished user_admin handler leaves in `last`: what it was
\* called with, what is_user_admin answered, what the guard did, the upstream
\* calls it made and the cache entry its store replaced (NoEntry if none).
Completed(c, user_id, result, calls, error, g) ==
    [fn |-> "user_admin", chat |-> c, uid |-> user_id, member |-> "None",
     result |-> result, invoked |-> g.invoked, effect |-> g.effect,
     error |-> error, calls |-> calls, replaced |-> NoEntry]

\* is_user_admin answered isAdmin after `calls` upstream calls, its store (if
\* any) having replaced the entry `old`; lines 284-296 of user_admin act on
\* the answer and the handler is finished.
Finish(c, user_id, isAdmin, calls, old) ==
    \E d \in InputsFor(isAdmin) :
        last' = [Completed(c, user_id, IF isAdmin THEN "True" ELSE "False", calls,
                           "none", user_admin(isAdmin, d.del_cmds, d.bare, d.deleteOk))
                 EXCEPT !.replaced = old]

\* Lines 279-296 entered with an update, run up to the first suspension:
\* is_user_admin answers at once for the ids of lines 131-136 and on a cache
\* hit (lines 139-142); on a KeyError it calls upstream and is suspended with
\* the lock held (line 147).
HandleUpdate(p) ==
    /\ last = NoHandler
    /\ co[p].pc = "idle"
    /\ \E upd \in Updates :
        LET c == upd[1]
            user_id == upd[2]
        IN  IF AdminBypass(c, user_id)
            THEN /\ Finish(c, user_id, TRUE, 0, NoEntry)
                 /\ UNCHANGED <<co, THREAD_LOCK>>
            ELSE /\ CanAcquire(THREAD_LOCK, ThreadOf(p))
                 /\ IF CacheHit(ADMIN_CACHE, c, now)
                    THEN /\ Finish(c, user_id, CacheLookup(ADMIN_CACHE, c, user_id), 0, NoEntry)
                         /\ THREAD_LOCK' = Release(Acquire(THREAD_LOCK, ThreadOf(p)))
                         /\ UNCHANGED co
                    ELSE /\ co' = [co EXCEPT ![p] = [pc |-> "awaiting", chat |-> c,
                                                     uid |-> user_id, holds |-> 1]]
                         /\ THREAD_LOCK' = Acquire(THREAD_LOCK, ThreadOf(p))
                         /\ UNCHANGED last
    /\ UNCHANGED <<guard, ADMIN_CACHE, now, admins, failed>>

\* Lines 147-151 and the rest of user_admin: the upstream call returns the
\* admin list as it is now, the list replaces the cache entry, the with block
\* releases the lock and the guard acts on the answer.
GetChatAdministratorsReturns(p) ==
    /\ last = NoHandler
    /\ co[p].pc = "awaiting"
    /\ ADMIN_CACHE' = CacheStore(ADMIN_CACHE, co[p].chat, admins[co[p].chat], now)
    /\ Finish(co[p].chat, co[p].uid, co[p].uid \in admins[co[p].chat], 1,
              ADMIN_CACHE[co[p].chat])
    /\ THREAD_LOCK' = Release(THREAD_LOCK)
    /\ co' = [co EXCEPT ![p] = Idle]
    /\ UNCHANGED <<guard, now, admins, failed>>

\* A failed fetch that caches an empty admin list before it leaves.
RaisesAndCachesEmptyList(p) ==
    /\ last = NoHandler
    /\ co[p].pc = "awaiting"
    /\ last' = Completed(co[p].chat, co[p].uid, "None", 1, "TelegramError",
                         [invoked |-> 0, effect |-> "none"])
    /\ ADMIN_CACHE' = CacheStore(ADMIN_CACHE, co[p].chat, {}, now)
    /\ THREAD_LOCK' = Release(THREAD_LOCK)
    /\ co' = [co EXCEPT ![p] = Idle]
    /\ UNCHANGED <<guard, now, admins, failed>>

\* Line 147 raises (the platform call failed): the exception leaves the with
\* block, which releases the lock, then is_user_admin and user_admin, neither
\* of which catches it.  Nothing is stored and the action is not invoked.
GetChatAdministratorsRaises(p) ==
    /\ last = NoHandler
    /\ co[p].pc = "awaiting"
    /\ last' = Completed(co[p].chat, co[p].uid, "None", 1, "TelegramError",
                         [invoked |-> 0, effect |-> "none"])
    /\ THREAD_LOCK' = Release(THREAD_LOCK)
    /\ co' = [co EXCEPT ![p] = Idle]
    /\ UNCHANGED <<guard, ADMIN_CACHE, now, admins, failed>>

\* The event loop collects the finished handler.
Collect ==
    /\ last # NoHandler
    /\ last' = NoHandler
    /\ failed' = IF last.calls = 0 \/ last.fn # "user_admin" THEN failed
                 ELSE IF last.error # "none" THEN failed \cup {last.chat}
                 ELSE failed \ {last.chat}
    /\ UNCHANGED <<guard, co, ADMIN_CACHE, THREAD_LOCK, now, admins>>

\* perf_counter() moves on.
Tick ==
    /\ last = NoHandler
    /\ now + TickSeconds <= MaxTicks * TickSeconds
    /\ now' = now + TickSeconds
    /\ UNCHANGED <<guard, co, ADMIN_CACHE, THREAD_LOCK, admins, last, failed>>

\* Upstream, a user is promoted to administrator of a chat or demoted.
AdminChange ==
    /\ last = NoHandler
    /\ \E c \in GroupChats, u \in AdminCandidates :
          admins' = [admins EXCEPT ![c] = IF u \in @ THEN @ \ {u} ELSE @ \cup {u}]
    /\ UNCHANGED <<guard, co, ADMIN_CACHE, THREAD_LOCK, now, last, failed>>

Next ==
    \/ \E p \in Coroutines : HandleUpdate(p)
    \/ \E p \in Coroutines : GetChatAdministratorsReturns(p)
    \/ \E p \in Coroutines : GetChatAdministratorsRaises(p)
    \/ Collect
    \/ Tick
    \/ AdminChange

Spec == Init /\ [][Next]_vars

(***************************************************************************)
(* SpecMember and SpecBan: Spec together with the other callers of the     *)
(* predicates: is_user_admin with a member record supplied (SpecMember),   *)
(* and is_user_ban_protected with and without one (SpecBan).               *)
(***************************************************************************)

\* The member records a caller passes, or chat.get_member answers with; only
\* .status is read.
KnownMembers ==
    {[kind |-> k, caps |-> {}] : k \in {"owner", "administrator", "member"}}

\* member.status in (ChatMemberStatus.ADMINISTRATOR, ChatMemberStatus.OWNER)
StatusIsAdmin(member) == member.kind \in {"administrator", "owner"}

\* An is_user_admin that counts only administrators, not the owner.
is_user_admin_not_owner(c, user_id, member) ==
    IF AdminBypass(c, user_id) THEN TRUE ELSE member.kind = "administrator"

\* is_user_admin(chat, user_id, member) with a member record, lines 131-137
\* and 152-153: the tier test comes first, then the record's status.
is_user_admin_known(c, user_id, member) ==
    IF AdminBypass(c, user_id) THEN TRUE ELSE StatusIsAdmin(member)

\* Lines 172-180: the ids and chats is_user_ban_protected lets through.
BanBypass(c, user_id) ==
    \/ ChatType(c) = "private"
    \/ user_id \in DRAGONS
    \/ user_id \in DEV_USERS
    \/ user_id \in WOLVES
    \/ user_id \in TIGERS
    \/ user_id \in PseudoUsers

\* An is_user_ban_protected that answers from the admin snapshot when the
\* chat has a live one.
is_user_ban_protected_cached(c, user_id, member) ==
    \/ BanBypass(c, user_id)
    \/ IF CacheHit(ADMIN_CACHE, c, now)
       THEN CacheLookup(ADMIN_CACHE, c, user_id)
       ELSE StatusIsAdmin(member)

\* is_user_ban_protected(chat, user_id, member), lines 171-185, member being
\* the record supplied or the one chat.get_member answered with.
is_user_ban_protected(c, user_id, member) ==
    BanBypass(c, user_id) \/ StatusIsAdmin(member)

\* What chat.get_member(user_id) answers now.
UpstreamMember(c, user_id) ==
    [kind |-> IF user_id \in admins[c] THEN "administrator" ELSE "member", caps |-> {}]

\* (chat, user) pairs is_user_admin is asked about with a member record.
MemberTargets ==
    ({-1001} \X (DEV_USERS \cup DRAGONS \cup {6, 777000})) \cup {<<c, c>> : c \in PrivateChats}

\* (chat, user) pairs is_user_ban_protected is asked about.
BanTargets == MemberTargets \cup ({-1001} \X (TIGERS \cup WOLVES))

\* The member argument of is_user_ban_protected: it is read only for a target
\* lines 172-180 do not let through.
BanMembers(tgt) ==
    IF ChatType(tgt[1]) = "private" \/ tgt[2] \notin PlainUsers THEN {NoneMember}
    ELSE KnownMembers \cup {NoneMember}

\* The record a finished direct call leaves in `last`.
Answered(fn, c, user_id, memberKind, result, calls, error) ==
    [fn |-> fn, chat |-> c, uid |-> user_id, member |-> memberKind,
     result |-> result, invoked |-> 0, effect |-> "none",
     error |-> error, calls |-> calls, replaced |-> NoEntry]

PyBool(b) == IF b THEN "True" ELSE "False"

\* is_user_admin(chat, user_id, member) called with a member record: no
\* suspension, no lock, no cache.
IsUserAdminKnownMember(p) ==
    /\ last = NoHandler
    /\ co[p].pc = "idle"
    /\ \E upd \in MemberTargets, member \in KnownMembers :
          last' = Answered("is_user_admin", upd[1], upd[2], member.kind,
                           PyBool(is_user_admin_known(upd[1], upd[2], member)),
                           0, "none")
    /\ UNCHANGED <<guard, co, ADMIN_CACHE, THREAD_LOCK, now, admins, failed>>

\* is_user_ban_protected(chat, user_id, member), lines 171-185.  Lines
\* 172-180 answer at once and so does a supplied member record (line 185);
\* otherwise line 183 awaits chat.get_member, which answers with the user's
\* standing or raises.  Nothing of this module is read or written before that
\* await, so the call is taken at the moment the platform answers.
IsUserBanProtected(p) ==
    /\ last = NoHandler
    /\ co[p].pc = "idle"
    /\ \E tgt \in BanTargets : \E member \in BanMembers(tgt) :
          IF BanBypass(tgt[1], tgt[2]) \/ member # NoneMember
          THEN last' = Answered("is_user_ban_protected", tgt[1], tgt[2], member.kind,
                                PyBool(is_user_ban_protected(tgt[1], tgt[2], member)),
                                0, "none")
          ELSE \/ last' = Answered("is_user_ban_protected", tgt[1], tgt[2], "None",
                                   PyBool(is_user_ban_protected(tgt[1], tgt[2],
                                              UpstreamMember(tgt[1], tgt[2]))),
                                   1, "none")
               \/ last' = Answered("is_user_ban_protected", tgt[1], tgt[2], "None",
                                   "None", 1, "TelegramError")
    /\ UNCHANGED <<guard, co, ADMIN_CACHE, THREAD_LOCK, now, admins, failed>>

NextMember ==
    \/ Next
    \/ \E p \in Coroutines : IsUserAdminKnownMember(p)

SpecMember == Init /\ [][NextMember]_vars

NextBan ==
    \/ Next
    \/ \E p \in Coroutines : IsUserBanProtected(p)

SpecBan == Init /\ [][NextBan]_vars

(***************************************************************************)
(* SpecGuards: SpecGuard together with the remaining decorators, one       *)
(* handler at a time.  A handler decorated with user_admin,                *)
(* user_admin_no_reply or user_not_admin calls is_user_admin, which may    *)
(* take THREAD_LOCK, await getChatAdministrators with the lock held and    *)
(* store the answer in ADMIN_CACHE; the clock and the upstream admin list  *)
(* move between handlers and during that await.                            *)
(***************************************************************************)

\* A handler decorated with user_admin is entered (lines 279-284) and runs up to its
\* first suspension: with no user is_user_admin is not called; lines 131-136
\* and a cache hit (lines 139-142) answer at once; on a KeyError the handler
\* is suspended at line 147 with the lock held.
UserAdmin ==
    /\ guard.pc = "idle"
    /\ \E ev \in UserGuardEvents :
          IF ev.uid = NoUser \/ AdminBypass(ev.chat, ev.uid)
          THEN /\ guard' = [pc |-> "user_returned", fn |-> "user_admin", ev |-> ev,
                            out |-> UserGuardOutcome("user_admin", ev, "True")]
               /\ UNCHANGED THREAD_LOCK
          ELSE /\ CanAcquire(THREAD_LOCK, ThreadOf(1))
               /\ IF CacheHit(ADMIN_CACHE, ev.chat, now)
                  THEN /\ guard' = [pc |-> "user_returned", fn |-> "user_admin", ev |-> ev,
                                    out |-> UserGuardOutcome("user_admin", ev,
                                        PyBool(CacheLookup(ADMIN_CACHE, ev.chat, ev.uid)))]
                       /\ THREAD_LOCK' = Release(Acquire(THREAD_LOCK, ThreadOf(1)))
                  ELSE /\ guard' = [pc |-> "awaiting", fn |-> "user_admin", ev |-> ev,
                                    out |-> NoTierOutcome]
                       /\ THREAD_LOCK' = Acquire(THREAD_LOCK, ThreadOf(1))
    /\ UNCHANGED <<co, ADMIN_CACHE, now, admins, last, failed>>

\* A handler decorated with user_admin_no_reply is entered (lines 303-310) and runs up to its
\* first suspension: with no user is_user_admin is not called; lines 131-136
\* and a cache hit (lines 139-142) answer at once; on a KeyError the handler
\* is suspended at line 147 with the lock held.
UserAdminNoReply ==
    /\ guard.pc = "idle"
    /\ \E ev \in UserGuardEvents :
          IF ev.uid = NoUser \/ AdminBypass(ev.chat, ev.uid)
          THEN /\ guard' = [pc |-> "user_returned", fn |-> "user_admin_no_reply", ev |-> ev,
                            out |-> UserGuardOutcome("user_admin_no_reply", ev, "True")]
               /\ UNCHANGED THREAD_LOCK
          ELSE /\ CanAcquire(THREAD_LOCK, ThreadOf(1))
               /\ IF CacheHit(ADMIN_CACHE, ev.chat, now)
                  THEN /\ guard' = [pc |-> "user_returned", fn |-> "user_admin_no_reply", ev |-> ev,
                                    out |-> UserGuardOutcome("user_admin_no_reply", ev,
                                        PyBool(CacheLookup(ADMIN_CACHE, ev.chat, ev.uid)))]
                       /\ THREAD_LOCK' = Release(Acquire(THREAD_LOCK, ThreadOf(1)))
                  ELSE /\ guard' = [pc |-> "awaiting", fn |-> "user_admin_no_reply", ev |-> ev,
                                    out |-> NoTierOutcome]
                       /\ THREAD_LOCK' = Acquire(THREAD_LOCK, ThreadOf(1))
    /\ UNCHANGED <<co, ADMIN_CACHE, now, admins, last, failed>>

\* A handler decorated with user_not_admin is entered (lines 325-330) and runs up to its
\* first suspension: with no user is_user_admin is not called; lines 131-136
\* and a cache hit (lines 139-142) answer at once; on a KeyError the handler
\* is suspended at line 147 with the lock held.
UserNotAdmin ==
    /\ guard.pc = "idle"
    /\ \E ev \in UserGuardEvents :
          IF ev.uid = NoUser \/ AdminBypass(ev.chat, ev.uid)
          THEN /\ guard' = [pc |-> "user_returned", fn |-> "user_not_admin", ev |-> ev,
                            out |-> UserGuardOutcome("user_not_admin", ev, "True")]
               /\ UNCHANGED THREAD_LOCK
          ELSE /\ CanAcquire(THREAD_LOCK, ThreadOf(1))
               /\ IF CacheHit(ADMIN_CACHE, ev.chat, now)
                  THEN /\ guard' = [pc |-> "user_returned", fn |-> "user_not_admin", ev |-> ev,
                                    out |-> UserGuardOutcome("user_not_admin", ev,
                                        PyBool(CacheLookup(ADMIN_CACHE, ev.chat, ev.uid)))]
                       /\ THREAD_LOCK' = Release(Acquire(THREAD_LOCK, ThreadOf(1)))
                  ELSE /\ guard' = [pc |-> "awaiting", fn |-> "user_not_admin", ev |-> ev,
                                    out |-> NoTierOutcome]
                       /\ THREAD_LOCK' = Acquire(THREAD_LOCK, ThreadOf(1))
    /\ UNCHANGED <<co, ADMIN_CACHE, now, admins, last, failed>>

\* Lines 147-151 and the rest of the decorator: the upstream call returns the
\* admin list as it is now, the list replaces the cache entry, the with block
\* releases the lock and the decorator acts on the answer.
GuardFetchReturns ==
    /\ guard.pc = "awaiting"
    /\ ADMIN_CACHE' = CacheStore(ADMIN_CACHE, guard.ev.chat, admins[guard.ev.chat], now)
    /\ THREAD_LOCK' = Release(THREAD_LOCK)
    /\ guard' = [guard EXCEPT
                    !.pc = "user_returned",
                    !.out = UserGuardOutcome(guard.fn, guard.ev,
                                PyBool(guard.ev.uid \in admins[guard.ev.chat]))]
    /\ UNCHANGED <<co, now, admins, last, failed>>

\* Line 147 raises: the with block releases the lock, nothing is stored and
\* the exception leaves the decorator.
GuardFetchRaises ==
    /\ guard.pc = "awaiting"
    /\ THREAD_LOCK' = Release(THREAD_LOCK)
    /\ guard' = [guard EXCEPT
                    !.pc = "user_returned",
                    !.out = UserGuardOutcome(guard.fn, guard.ev, "raises")]
    /\ UNCHANGED <<co, ADMIN_CACHE, now, admins, last, failed>>

\* perf_counter() moves on between handlers or during the await.
GuardTick ==
    /\ guard.pc \in {"idle", "awaiting"}
    /\ Tick

\* Upstream, a user of the decorated handlers' group is promoted or demoted,
\* between handlers or during the await.
GuardAdminChange ==
    /\ guard.pc \in {"idle", "awaiting"}
    /\ \E c \in UserGuardChats, u \in AdminCandidates :
          admins' = [admins EXCEPT ![c] = IF u \in @ THEN @ \ {u} ELSE @ \cup {u}]
    /\ UNCHANGED <<guard, co, ADMIN_CACHE, THREAD_LOCK, now, last, failed>>

\* A handler decorated with bot_admin runs to its end.
BotAdmin ==
    /\ guard.pc = "idle"
    /\ \E ev \in BotGuardEvents :
          guard' = [pc |-> "bot_returned", fn |-> "bot_admin", ev |-> ev, out |-> bot_admin(ev)]
    /\ UNCHANGED <<co, ADMIN_CACHE, THREAD_LOCK, now, admins, last, failed>>

\* A handler decorated with bot_can_delete runs to its end.
BotCanDelete ==
    /\ guard.pc = "idle"
    /\ \E ev \in BotGuardEvents :
          guard' = [pc |-> "bot_returned", fn |-> "bot_can_delete", ev |-> ev, out |-> delete_rights(ev)]
    /\ UNCHANGED <<co, ADMIN_CACHE, THREAD_LOCK, now, admins, last, failed>>

\* A handler decorated with can_pin runs to its end.
CanPin ==
    /\ guard.pc = "idle"
    /\ \E ev \in BotGuardEvents :
          guard' = [pc |-> "bot_returned", fn |-> "can_pin", ev |-> ev, out |-> pin_rights(ev)]
    /\ UNCHANGED <<co, ADMIN_CACHE, THREAD_LOCK, now, admins, last, failed>>

\* A handler decorated with can_promote runs to its end.
CanPromote ==
    /\ guard.pc = "idle"
    /\ \E ev \in BotGuardEvents :
          guard' = [pc |-> "bot_returned", fn |-> "can_promote", ev |-> ev, out |-> promote_rights(ev)]
    /\ UNCHANGED <<co, ADMIN_CACHE, THREAD_LOCK, now, admins, last, failed>>

\* A handler decorated with can_restrict runs to its end.
CanRestrict ==
    /\ guard.pc = "idle"
    /\ \E ev \in BotGuardEvents :
          guard' = [pc |-> "bot_returned", fn |-> "can_restrict", ev |-> ev, out |-> restrict_rights(ev)]
    /\ UNCHANGED <<co, ADMIN_CACHE, THREAD_LOCK, now, admins, last, failed>>

GuardsNext ==
    \/ GuardNext
    \/ UserAdmin
    \/ UserAdminNoReply
    \/ UserNotAdmin
    \/ GuardFetchReturns
    \/ GuardFetchRaises
    \/ GuardTick
    \/ GuardAdminChange
    \/ BotAdmin
    \/ BotCanDelete
    \/ CanPin
    \/ CanPromote
    \/ CanRestrict

SpecGuards == Init /\ [][GuardsNext]_vars

(***************************************************************************)
(* Claims about check_admin, checked under SpecGuard.                      *)
(***************************************************************************)

\* A check_admin invocation in a non-private chat has been evaluated.
GroupRun == guard.pc = "returned" /\ guard.ev.chatType # "private"

\* The user's and the bot's standing upstream, whatever the guard fetched.
UserIsOwner == guard.ev.userRec.kind = "owner"

UserIsAdminWith(permission) ==
    guard.ev.userRec.kind = "administrator" /\ permission \in guard.ev.userRec.caps

BotIsAdminWith(permission) ==
    guard.ev.botRec.kind = "administrator" /\ permission \in guard.ev.botRec.caps

NoOnlyFlag == ~guard.cfg.only_owner /\ ~guard.cfg.only_dev /\ ~guard.cfg.only_sudo

\* The guard ended with exactly this one denial and nothing else.
DeniedWith(reason) ==
    /\ guard.out.replies = <<reason>>
    /\ guard.out.invoked = 0
    /\ guard.out.error = "none"

\* The guard invoked the action once, returned its result and sent nothing.
Allowed ==
    /\ guard.out.invoked = 1
    /\ guard.out.ret = "func"
    /\ guard.out.replies = <<>>
    /\ guard.out.error = "none"

\* C1: with only_dev (only_owner unset) in a non-private chat, the action is
\* invoked iff the user is a developer, and for a non-developer the guard
\* ends with the dev-only denial: nothing after it is evaluated.
C1_OnlyDevIsTerminal ==
    (GroupRun /\ guard.cfg.only_dev /\ ~guard.cfg.only_owner) =>
        /\ (guard.out.invoked = 1) <=> (guard.ev.uid \in DEV_USERS)
        /\ guard.ev.uid \notin DEV_USERS => DeniedWith("dev-only")

\* C2: with only_sudo (only_owner and only_dev unset) in a non-private chat,
\* the action is invoked iff the user is in the sudo-plus tier, and every
\* other user gets the sudo-only denial.
C2_OnlySudoAllowsSudoPlus ==
    (GroupRun /\ guard.cfg.only_sudo /\ ~guard.cfg.only_owner /\ ~guard.cfg.only_dev) =>
        /\ (guard.out.invoked = 1) <=> is_sudo_plus(guard.ev.uid)
        /\ ~is_sudo_plus(guard.ev.uid) => DeniedWith("sudo-only")

\* C3: with only_owner in a non-private chat, for every is_bot / is_user /
\* is_both, the chat owner and the developers are allowed and everybody else
\* gets the owner-only denial.
C3_OnlyOwnerAllowsOwnerAndDev ==
    (GroupRun /\ guard.cfg.only_owner) =>
        IF UserIsOwner \/ guard.ev.uid \in DEV_USERS
        THEN Allowed
        ELSE DeniedWith("owner-only")

\* C4: the plain admin check (no permission, no only_* flag) in a non-private
\* chat invokes the action and returns its result iff the bot is an
\* administrator and the user is administrator, owner or sudo-plus; the bot
\* side fails with not-admin first, the user side with no-access.
C4_PlainAdminCheck ==
    (GroupRun /\ guard.cfg.permission = NonePermission /\ NoOnlyFlag) =>
        IF guard.ev.botRec.kind # "administrator" THEN DeniedWith("not-admin")
        ELSE IF \/ guard.ev.userRec.kind \in {"administrator", "owner"}
                \/ is_sudo_plus(guard.ev.uid)
             THEN Allowed
             ELSE DeniedWith("no-access")

\* C5: a capability required of the user only (is_user, no only_* flag) in a
\* non-private chat: allowed iff the user is the chat owner, or an
\* administrator holding the capability, or sudo-plus whatever the record
\* says; otherwise the insufficient-user-capability denial.
C5_UserCapability ==
    (/\ GroupRun /\ guard.cfg.permission # NonePermission /\ NoOnlyFlag
     /\ guard.cfg.is_user /\ ~guard.cfg.is_bot /\ ~guard.cfg.is_both) =>
        IF \/ UserIsOwner
           \/ UserIsAdminWith(guard.cfg.permission)
           \/ is_sudo_plus(guard.ev.uid)
        THEN Allowed
        ELSE DeniedWith("insufficient-user-capability")

\* C6: a capability required of both (is_both only, no only_* flag) in a
\* non-private chat where the bot is an administrator holding it: allowed iff
\* the user is the chat owner, or an administrator holding the capability, or
\* sudo-plus; otherwise the insufficient-user-capability denial.
C6_BothCapabilityUserSide ==
    (/\ GroupRun /\ guard.cfg.permission # NonePermission /\ NoOnlyFlag
     /\ guard.cfg.is_both /\ ~guard.cfg.is_bot /\ ~guard.cfg.is_user
     /\ BotIsAdminWith(guard.cfg.permission)) =>
        IF \/ UserIsOwner
           \/ UserIsAdminWith(guard.cfg.permission)
           \/ is_sudo_plus(guard.ev.uid)
        THEN Allowed
        ELSE DeniedWith("insufficient-user-capability")


(***************************************************************************)
(* Claims about is_user_admin, the cache and the lock, checked under Spec. *)
(***************************************************************************)

\* The cache holds an entry for chat c that has not expired.
EntryLive(c) == ADMIN_CACHE[c].present /\ ADMIN_CACHE[c].expires > now

\* This step finishes a handler; last' is its outcome.
HandlerFinishes == last = NoHandler /\ last' # NoHandler

\* This step starts the upstream call of coroutine p.
StartsFetch(p) == co[p].pc = "idle" /\ co'[p].pc = "awaiting"

\* This step ends the upstream call of coroutine p.
EndsFetch(p) == co[p].pc = "awaiting" /\ co'[p].pc = "idle"

\* The coroutines that are inside `with THREAD_LOCK`.
InsideLock == {p \in Coroutines : co[p].holds > 0}

\* C7: an invocation of is_user_admin that is suspended on the upstream
\* admin-list fetch does not hold THREAD_LOCK.
C7_NoLockHeldAcrossAwait ==
    \A p \in Coroutines : co[p].pc = "awaiting" => co[p].holds = 0

\* C8: at most one invocation at a time is inside the section of
\* is_user_admin guarded by THREAD_LOCK.
C8_LockSerializesSection == Cardinality(InsideLock) <= 1

\* C9: when the upstream fetch of a non-privileged user's invocation fails,
\* the action is not invoked, the cache is left as it was and the invocation's
\* hold on the lock is released; an invocation that finds no live entry makes
\* a fresh fetch, and when that fetch succeeds the user is allowed iff the
\* fetched list has the user, and the list is stored.
C9_FailClosed ==
    [][/\ \A p \in Coroutines : EndsFetch(p) =>
            /\ last'.chat = co[p].chat /\ last'.uid = co[p].uid /\ last'.calls = 1
            /\ co[p].uid \in PlainUsers
            /\ co'[p].holds = 0
            /\ THREAD_LOCK'.count = THREAD_LOCK.count - 1
            /\ IF last'.error # "none"
               THEN /\ last'.invoked = 0
                    /\ last'.result = "None"
                    /\ ADMIN_CACHE' = ADMIN_CACHE
               ELSE /\ (last'.invoked = 1) <=> (co[p].uid \in admins[co[p].chat])
                    /\ ADMIN_CACHE'[co[p].chat].present
                    /\ ADMIN_CACHE'[co[p].chat].list = admins[co[p].chat]
       /\ (HandlerFinishes /\ last'.uid \in PlainUsers /\ last'.chat \in GroupChats
             /\ ~EntryLive(last'.chat)) => last'.calls = 1
      ]_vars

\* C9 witness: a fetch for a chat failed earlier, and now a non-privileged
\* user's invocation on that chat has fetched afresh and been allowed.
C9_Witness ==
    /\ last.chat \in failed
    /\ last.uid \in PlainUsers
    /\ last.calls = 1
    /\ last.error = "none"
    /\ last.invoked = 1
    /\ THREAD_LOCK = FreeLock

\* C10: while chat C has a live entry, an is_user_admin(C, u) call for a
\* non-privileged u makes no upstream call, leaves the cache alone and
\* returns exactly (u is in the stored list); a user not in the list is
\* denied by user_admin.
C10_HitAnswersFromCache ==
    [][/\ \A p \in Coroutines : StartsFetch(p) => ~EntryLive(co'[p].chat)
       /\ (HandlerFinishes /\ last'.uid \in PlainUsers /\ last'.chat \in GroupChats
             /\ EntryLive(last'.chat)
             /\ \A p \in Coroutines : ~EndsFetch(p)) =>
            /\ last'.calls = 0
            /\ last'.error = "none"
            /\ ADMIN_CACHE' = ADMIN_CACHE
            /\ co' = co
            /\ (last'.result = "True") <=> (last'.uid \in ADMIN_CACHE[last'.chat].list)
            /\ (last'.invoked = 1) <=> (last'.uid \in ADMIN_CACHE[last'.chat].list)
            /\ (last'.invoked = 0) => last'.effect # "none"
      ]_vars

\* C10 witness: a non-privileged user who is not in the non-empty cached
\* list has been denied without an upstream call.
C10_Witness ==
    /\ last.uid \in PlainUsers
    /\ last.chat \in GroupChats
    /\ last.calls = 0
    /\ EntryLive(last.chat)
    /\ ADMIN_CACHE[last.chat].list # {}
    /\ last.uid \notin ADMIN_CACHE[last.chat].list
    /\ last.result = "False"
    /\ last.invoked = 0


\* C11: when the entry of chat C is older than the 600-second time-to-live,
\* an invocation for a non-privileged user finishes only after one upstream
\* fetch; the fetched list replaces the entry, whose expiry clock restarts,
\* and the answer is the user's membership of the fetched list, so a real
\* admin is allowed by user_admin.
C11_ExpiredEntryIsRefetched ==
    [][\A c \in GroupChats :
         (/\ HandlerFinishes /\ last'.fn = "user_admin"
          /\ last'.chat = c /\ last'.uid \in PlainUsers
          /\ ADMIN_CACHE[c].present /\ now >= ADMIN_CACHE[c].expires) =>
            /\ last'.calls = 1
            /\ \E p \in Coroutines : EndsFetch(p) /\ co[p].chat = c
            /\ last'.error = "none" =>
                 /\ ADMIN_CACHE'[c] =
                        [present |-> TRUE, list |-> admins[c], expires |-> now + 600]
                 /\ (last'.result = "True") <=> (last'.uid \in admins[c])
                 /\ (last'.invoked = 1) <=> (last'.uid \in admins[c])
      ]_vars

\* C11 witness: a real admin's invocation has replaced an expired entry by a
\* freshly fetched list and been allowed.
C11_Witness ==
    /\ last.fn = "user_admin"
    /\ last.uid \in PlainUsers
    /\ last.calls = 1
    /\ last.error = "none"
    /\ last.replaced.present
    /\ last.replaced.expires <= now
    /\ ADMIN_CACHE[last.chat].expires = now + 600
    /\ last.uid \in ADMIN_CACHE[last.chat].list
    /\ last.invoked = 1


\* C18: under every interleaving, an entry of the cache changes only by being
\* replaced wholesale with the complete list one upstream fetch for that chat
\* returned (the last writer wins), or by being dropped once expired; it is
\* never patched or mixed from two fetches.
C18_EntriesReplacedWholesale ==
    [][\A c \in GroupChats : ADMIN_CACHE'[c] # ADMIN_CACHE[c] =>
         \/ /\ \E p \in Coroutines : EndsFetch(p) /\ co[p].chat = c
            /\ last'.error = "none" /\ last'.chat = c
            /\ ADMIN_CACHE'[c] =
                   [present |-> TRUE, list |-> admins[c], expires |-> now + 600]
         \/ /\ \E p \in Coroutines : EndsFetch(p) /\ co[p].chat # c
            /\ ADMIN_CACHE[c].present /\ now >= ADMIN_CACHE[c].expires
            /\ ADMIN_CACHE'[c] = NoEntry
      ]_vars

\* C18 witness: two invocations missed on the same chat and fetched twice;
\* the second writer has replaced the first writer's still live, different
\* list, and the entry is exactly the list the second fetch returned.
C18_Witness ==
    /\ last.fn = "user_admin"
    /\ last.calls = 1
    /\ last.error = "none"
    /\ last.replaced.present
    /\ last.replaced.expires > now
    /\ last.replaced.list # {}
    /\ ADMIN_CACHE[last.chat].list = {}
    /\ admins[last.chat] = {}

(***************************************************************************)
(* Claims about the direct callers, checked under SpecMember and SpecBan.  *)
(***************************************************************************)

\* This step is a complete call that left every coroutine, the cache and the
\* lock as they were and asked nothing upstream.
TouchesNothing ==
    /\ last'.calls = 0
    /\ last'.error = "none"
    /\ last'.replaced = NoEntry
    /\ ADMIN_CACHE' = ADMIN_CACHE
    /\ THREAD_LOCK' = THREAD_LOCK
    /\ co' = co

\* This step is a call of is_user_admin with a member record in a group.
KnownMemberCall ==
    HandlerFinishes /\ last'.fn = "is_user_admin" /\ ChatType(last'.chat) # "private"

\* C12 as stated: with a member record supplied in a non-private chat, the
\* result of is_user_admin is exactly (the record's status is administrator
\* or owner) for every user id, the privileged tiers included, and the call
\* reads and writes no cache and calls nothing upstream.
C12_RecordDecidesForEveryId ==
    [][KnownMemberCall =>
          /\ (last'.result = "True") <=> (last'.member \in {"administrator", "owner"})
          /\ TouchesNothing
      ]_vars

\* C12 amended: with a member record supplied in a non-private chat, the
\* result is exactly (the record's status is administrator or owner) for every
\* user id outside the sudo and developer tiers and the two pseudo-users; for
\* those ids it is true whatever the record says.  In both cases the call
\* reads and writes no cache and calls nothing upstream.
C12_RecordDecidesBelowTiers ==
    [][KnownMemberCall =>
          /\ IF last'.uid \in DRAGONS \cup DEV_USERS \cup {777000, 1087968824}
             THEN last'.result = "True"
             ELSE (last'.result = "True") <=> (last'.member \in {"administrator", "owner"})
          /\ TouchesNothing
      ]_vars

\* C12 witness: the group has a live cached admin list without the plain
\* user, the record supplied says owner, and is_user_admin answered true from
\* the record.
C12_Witness ==
    /\ last.fn = "is_user_admin"
    /\ last.chat \in GroupChats
    /\ last.uid \in PlainUsers
    /\ last.member = "owner"
    /\ last.result = "True"
    /\ EntryLive(last.chat)
    /\ last.uid \notin ADMIN_CACHE[last.chat].list

\* C15: for a developer, is_user_admin (with or without a member record)
\* returns true in every chat and every cache state, makes no upstream call
\* and leaves cache, lock and coroutines alone; no upstream fetch is ever
\* started on behalf of a developer.
C15_DeveloperIsAlwaysAdmin ==
    [][/\ \A p \in Coroutines : StartsFetch(p) => co'[p].uid \notin DEV_USERS
       /\ (HandlerFinishes /\ last'.fn \in {"user_admin", "is_user_admin"}
             /\ last'.uid \in DEV_USERS) =>
            /\ last'.result = "True"
            /\ TouchesNothing
      ]_vars

\* C15 witness: a developer was answered true by the cache-backed
\* is_user_admin in a group whose entry is present but expired, does not list
\* the developer, and whose last upstream fetch failed.
C15_Witness ==
    /\ last.fn = "user_admin"
    /\ last.uid \in DEV_USERS
    /\ last.chat \in GroupChats
    /\ last.result = "True"
    /\ last.invoked = 1
    /\ last.chat \in failed
    /\ ADMIN_CACHE[last.chat].present
    /\ ADMIN_CACHE[last.chat].expires <= now
    /\ last.uid \notin ADMIN_CACHE[last.chat].list

\* The status is_user_ban_protected judges by: the record supplied, else what
\* the platform says of the user now.
JudgedStatus ==
    IF last'.member # "None" THEN last'.member
    ELSE IF last'.uid \in admins[last'.chat] THEN "administrator" ELSE "member"

\* C17: a call of is_user_ban_protected leaves the admin cache, its lock and
\* the coroutines as they were, and its answer is a function of the chat, the user and the member
\* status alone (true for a private chat, the sudo, developer and the two
\* whitelist tiers and the pseudo-users, else status is administrator or
\* owner), whatever the cache holds for the chat.
C17_BanProtectionIgnoresCache ==
    [][(HandlerFinishes /\ last'.fn = "is_user_ban_protected") =>
          /\ ADMIN_CACHE' = ADMIN_CACHE
          /\ THREAD_LOCK' = THREAD_LOCK
          /\ co' = co
          /\ last'.replaced = NoEntry
          /\ last'.error = "none" =>
               ((last'.result = "True") <=>
                  \/ last'.chat \in PrivateChats
                  \/ last'.uid \in DRAGONS \cup DEV_USERS \cup WOLVES \cup TIGERS
                  \/ last'.uid \in {777000, 1087968824}
                  \/ JudgedStatus \in {"administrator", "owner"})
      ]_vars

\* C17 witness: the chat's live cache entry still lists a user the platform
\* no longer has as administrator, and is_user_ban_protected, having asked
\* the platform, answered false.
C17_Witness ==
    /\ last.fn = "is_user_ban_protected"
    /\ last.uid \in PlainUsers
    /\ last.calls = 1
    /\ last.result = "False"
    /\ EntryLive(last.chat)
    /\ last.uid \in ADMIN_CACHE[last.chat].list
    /\ last.uid \notin admins[last.chat]

(***************************************************************************)
(* More claims about the guards, checked under SpecGuard.                  *)
(***************************************************************************)

\* C14: a capability required of both (is_both only, no only_* flag) in a
\* non-private chat where the bot is not an administrator or its record lacks
\* the capability: the guard ends with the insufficient-bot-capability denial
\* and nothing is invoked, whoever the user is.
C14_BotSideDeniesFirst ==
    (/\ GroupRun /\ guard.cfg.permission # NonePermission /\ NoOnlyFlag
     /\ guard.cfg.is_both /\ ~guard.cfg.is_bot /\ ~guard.cfg.is_user
     /\ ~BotIsAdminWith(guard.cfg.permission)) =>
        DeniedWith("insufficient-bot-capability")

\* C14 witness: a developer who owns the chat has been denied because the
\* bot, an administrator, lacks the capability.
C14_Witness ==
    /\ GroupRun /\ guard.cfg.permission # NonePermission /\ NoOnlyFlag
    /\ guard.cfg.is_both /\ ~guard.cfg.is_bot /\ ~guard.cfg.is_user
    /\ guard.ev.botRec.kind = "administrator"
    /\ guard.cfg.permission \notin guard.ev.botRec.caps
    /\ guard.ev.uid \in DEV_USERS
    /\ UserIsOwner
    /\ DeniedWith("insufficient-bot-capability")

\* C16: in a private chat check_admin invokes the action whatever its flags
\* and whoever the user is, fetches no member record and sends no denial.
C16_PrivateChatBypass ==
    (guard.pc = "returned" /\ guard.ev.chatType = "private") =>
        Allowed /\ guard.out.fetched = {}

\* C16 witness: an owner-only, developer-only, sudo-only guard with a required
\* capability has let a plain member with no tier through in a private chat.
C16_Witness ==
    /\ guard.pc = "returned"
    /\ guard.ev.chatType = "private"
    /\ guard.cfg.only_owner /\ guard.cfg.only_dev /\ guard.cfg.only_sudo
    /\ guard.cfg.permission # NonePermission
    /\ guard.ev.uid \in PlainUsers
    /\ guard.ev.userRec.kind = "member"
    /\ guard.out.invoked = 1
    /\ guard.out.replies = <<>>

\* A tier decorator has run for an existing user.
TierRun == guard.pc = "tier_returned" /\ guard.ev.uid # NoUser

\* The user of the run belongs to the tier the decorator admits.
InGuardTier ==
    CASE guard.fn = "dev_plus" -> guard.ev.uid \in DEV_USERS
      [] guard.fn = "sudo_plus" -> guard.ev.uid \in DRAGONS \cup DEV_USERS
      [] guard.fn = "support_plus" -> guard.ev.uid \in DEMONS \cup DRAGONS \cup DEV_USERS
      [] guard.fn = "whitelist_plus" ->
            guard.ev.uid \in WOLVES \cup TIGERS \cup DEMONS \cup DRAGONS \cup DEV_USERS

\* The decorator invoked the action once, returned its result and did
\* nothing else.
TierAllowed ==
    /\ guard.out.invoked = 1
    /\ guard.out.ret = "func"
    /\ guard.out.replies = <<>>
    /\ guard.out.deletes = 0
    /\ guard.out.error = "none"

\* C13 as stated: in a private chat every tier decorator invokes the action
\* for every user, a user of no tier included.
C13_PrivateChatOpensTierGuards ==
    (TierRun /\ guard.ev.chatType = "private") => TierAllowed

\* C13 amended: in a private chat, as in a group, a tier decorator invokes
\* the action exactly when the user belongs to its tier (developer for
\* dev_plus, sudo or developer for sudo_plus, support, sudo or developer for
\* support_plus, any tier for whitelist_plus); otherwise the action is not
\* invoked.
C13_PrivateChatKeepsTierGuards ==
    (TierRun /\ guard.ev.chatType = "private") =>
        IF InGuardTier THEN TierAllowed ELSE guard.out.invoked = 0

\* C13 witness: a user of no tier has been refused a developer command in a
\* private chat.
C13_Witness ==
    /\ TierRun
    /\ guard.ev.chatType = "private"
    /\ guard.fn = "dev_plus"
    /\ guard.ev.uid \in PlainUsers
    /\ guard.out.invoked = 0
    /\ guard.out.replies = <<"dev-only">>

\* The text contains a whitespace character.
HasWhitespace(text) == \E i \in 1..Len(text) : text[i] \in {" ", "\t", "\n"}

\* C19: when dev_plus, sudo_plus or support_plus denies an existing user, the
\* action is not invoked and the decorator ends normally; with DEL_CMDS on and
\* a text without whitespace the message is deleted (one delete() call, whose
\* failure is swallowed) and no reply is sent, and in every other case exactly
\* one denial reply is sent and nothing is deleted.
C19_DenialDeletesOrReplies ==
    (TierRun /\ guard.fn \in {"dev_plus", "sudo_plus", "support_plus"} /\ ~InGuardTier) =>
        /\ guard.out.invoked = 0
        /\ guard.out.error = "none"
        /\ IF guard.ev.del_cmds /\ ~HasWhitespace(guard.ev.text)
           THEN guard.out.deletes = 1 /\ guard.out.replies = <<>>
           ELSE guard.out.deletes = 0 /\ Len(guard.out.replies) = 1

\* C20: can_manage_topics invokes the action iff the bot is an administrator
\* whose record has can_manage_topics, whatever its other capabilities.
C20_TopicsCapabilityDecides ==
    guard.pc = "topics_returned" =>
        ((guard.out.invoked = 1) <=>
            /\ guard.ev.botRec.kind = "administrator"
            /\ "can_manage_topics" \in guard.ev.botRec.caps)

(***************************************************************************)
(* A claim about every decorator, checked under SpecGuards.                *)
(***************************************************************************)

\* The calls of effective_message.delete() the finished guard made;
\* check_admin has none in its code.
GuardDeletes == IF guard.pc = "returned" THEN 0 ELSE guard.out.deletes

\* C21: one invocation of any decorator (check_admin in every configuration,
\* the tier decorators, the user and the bot decorators, can_manage_topics)
\* invokes the action at most once, and never both invokes it and sends a
\* denial reply or deletes the invoking message.
C21_OnceAndNeverWithDenial ==
    guard.pc # "idle" =>
        /\ guard.out.invoked <= 1
        /\ guard.out.invoked = 1 => (guard.out.replies = <<>> /\ GuardDeletes = 0)

=============================================================================
